---- MODULE Spec2Model ----
(***************************************************************************)
(* Authentication flow of the backend scaffold: signup / signin            *)
(* (service/auth_service.py), the request-scoped database session          *)
(* (repository/connection.py), the token codec and the password hasher     *)
(* (service/security.py), the session authenticator                        *)
(* (api/dependencies.py) and the error payload (api/app.py,                *)
(* api/exceptions.py), and the progress-flag middleware of the task        *)
(* workers (domain/taskiq_middleware.py).                                  *)
(*                                                                         *)
(* Specifications: Spec (the server under concurrent requests), ClientSpec *)
(* (one client that keeps the cookie the server sets), SecuritySpec (calls *)
(* of the functions of service/security.py) and WorkerSpec (jobs run by    *)
(* the task workers under ProgressStateMiddleware).                        *)
(*                                                                         *)
(* Strings that the code converts (str(uuid), UUID(str)) are records       *)
(* [form, n]: form says how the text is written, n which UUID it spells.   *)
(* JWT claim mappings are records [sub, exp] whose absent keys hold the    *)
(* AbsentSub / AbsentExp marks.                                            *)
(***************************************************************************)
EXTENDS Integers, Sequences, FiniteSets, TLC

VARIABLES
    users,        \* committed rows of table "user"
    credentials,  \* ghost: <<user id, plaintext password>> given at signup
    nextId,       \* ghost: how many uuid4() primary keys have been inserted
    now,          \* the clock read by datetime.utcnow(), in minutes
    req,          \* the signup requests in flight, one session each
    last,         \* the request that completed last, with its response
    client,       \* one HTTP client: its cookie jar and what it has asked
    call,         \* the last call of a function of service/security.py
    registry,     \* entity_name_to_class_mapping: the registered entity types
    flags,        \* the progress field of the rows of the registered table
    jobs,         \* the jobs the task workers run
    tasks         \* the requests the application handles, step by step

vars == <<users, credentials, nextId, now, req, last, client, call, registry,
          flags, jobs, tasks>>

\* the state of the server
serverVars == <<users, credentials, nextId, now, req, last>>
\* the state of the task workers
workerVars == <<registry, flags, jobs>>

---------------------------------------------------------------------------
(* Bounds of the model *)

\* the clock runs 0..MaxTime
MaxTime == 2
\* at most MaxUuid rows are ever inserted
MaxUuid == 2
\* JWT_ACCESS_TOKEN_EXPIRE_MINUTES (core/settings.py, 60 * 24 * 7 unless the
\* environment sets it), scaled to the model's clock
access_token_expire_minutes == 1

Reqs == {"r1", "r2"}
Emails == {"a@b.com", "A@b.com"}
Passwords == {"Secret123!", "hunter2"}
Salts == {"salt1"}

---------------------------------------------------------------------------
(* jwt_settings *)

secret_key == "change-me-in-production"
algorithm == "HS256"

---------------------------------------------------------------------------
(* str(uuid) and UUID(str) *)

\* str(user.id): the canonical hyphenated lower-case text of the UUID
UuidToStr(u) == [form |-> "canonical", n |-> u]

\* the texts uuid.UUID() accepts: hyphenated or bare hex, any case
UuidForms == {"canonical", "hex", "upper"}

NotAUuid == [form |-> "junk", n |-> 0]
EmptyStr == [form |-> "empty", n |-> 0]
AbsentSub == [form |-> "absent", n |-> 0]
ValueError == -1

\* UUID(user_id): the UUID a text spells, or ValueError
ParseUuid(s) == IF s.form \in UuidForms THEN s.n ELSE ValueError

---------------------------------------------------------------------------
(* Password hasher: argon2 PasswordHasher *)

\* mutant: a digest that depends on the salt alone
Argon2OfSalt(salt, password) == <<salt, "">>

\* the argon2 digest of a password under a salt (collision-free)
Argon2(salt, password) == <<salt, password>>

get_password_hash(password, salt) ==
    [wellformed |-> TRUE, salt |-> salt, digest |-> Argon2(salt, password)]

\* a string that is no argon2 hash
NoHash == [wellformed |-> FALSE, salt |-> "", digest |-> <<"", "">>]

\* ph.verify(hash, password): the name of the exception it raises, "" when it
\* returns True
ph_verify(hash, password) ==
    IF ~hash.wellformed THEN "InvalidHashError"
    ELSE IF hash.digest # Argon2(hash.salt, password) THEN "VerifyMismatchError"
    ELSE ""

\* mutant: "except VerifyMismatchError"
CaughtAsMismatch(exc) == exc = "VerifyMismatchError"

\* "except Exception": every exception of argon2 is a subclass of Exception
CaughtAsException(exc) == exc \in {"InvalidHashError", "VerifyMismatchError"}

\* the call of verify_password: what it raises and what it returns
verify_password_call(plain_password, hashed_password) ==
    LET exc == ph_verify(hashed_password, plain_password) IN
    IF exc = "" THEN [raised |-> "", value |-> TRUE]
    ELSE IF CaughtAsException(exc) THEN [raised |-> "", value |-> FALSE]
    ELSE [raised |-> exc, value |-> FALSE]

\* mutant: ph.verify(plain_password, hashed_password), the arguments swapped:
\* the plaintext is no argon2 hash, ph.verify raises
verify_password_swapped(plain_password, hashed_password) == FALSE

\* ph.verify raises on a malformed hash and on a mismatch; both become False
verify_password(plain_password, hashed_password) ==
    verify_password_call(plain_password, hashed_password).value

---------------------------------------------------------------------------
(* Token codec: jose.jwt with HS256 *)

AbsentExp == -1

\* the empty claim mapping {}
EmptyClaims == [sub |-> AbsentSub, exp |-> AbsentExp]

\* the HMAC of header and payload under a key
Sign(key, alg, payload) == [key |-> key, alg |-> alg, payload |-> payload]

NoSig == [key |-> "", alg |-> "none", payload |-> EmptyClaims]

\* request.cookies.get("access_token") when the request carries no such cookie
NoCookie == [kind |-> "absent", alg |-> "", payload |-> EmptyClaims, sig |-> NoSig]
\* a cookie whose value is the empty string
EmptyCookie == [NoCookie EXCEPT !.kind = "empty"]
\* a cookie whose value is no three-part JWT
MalformedCookie == [NoCookie EXCEPT !.kind = "malformed"]

jwt_encode(payload, key, alg) ==
    [kind |-> "jwt", alg |-> alg, payload |-> payload, sig |-> Sign(key, alg, payload)]

\* expires_delta is a number of minutes, or NoDelta for None
NoDelta == -1

Expire(expires_delta, t) ==
    IF expires_delta # NoDelta /\ expires_delta # 0
    THEN t + expires_delta
    ELSE t + access_token_expire_minutes

create_access_token(data, expires_delta, t) ==
    jwt_encode([data EXCEPT !.exp = Expire(expires_delta, t)], secret_key, algorithm)

\* the claims jose validates besides 'exp' when it decodes: 'sub', when
\* present, must be a string, and a token that has an 'aud' is refused by a
\* decode that is given no audience
RegisteredClaimsValid(payload) ==
    /\ payload.sub.form \notin {"int", "none"}
    /\ "aud" \notin DOMAIN payload

\* mutant: the signature is not verified
jwt_decode_unverified(token, key, alg, t) ==
    IF token.kind # "jwt"
    THEN [raised |-> "JWTError", claims |-> EmptyClaims]
    ELSE IF token.alg # alg
    THEN [raised |-> "JWTError", claims |-> EmptyClaims]
    ELSE IF token.payload.exp # AbsentExp /\ token.payload.exp < t
    THEN [raised |-> "ExpiredSignatureError", claims |-> EmptyClaims]
    ELSE IF ~RegisteredClaimsValid(token.payload)
    THEN [raised |-> "JWTClaimsError", claims |-> EmptyClaims]
    ELSE [raised |-> "", claims |-> token.payload]

\* jose.jwt.decode(token, key, algorithms=[alg]) at time t: the claims, or the
\* exception raised. JWSError is mapped to JWTError by jose; JWTClaimsError
\* and ExpiredSignatureError are subclasses of JWTError.
jwt_decode(token, key, alg, t) ==
    IF token.kind # "jwt"
    THEN [raised |-> "JWTError", claims |-> EmptyClaims]
    ELSE IF token.alg # alg
    THEN [raised |-> "JWTError", claims |-> EmptyClaims]
    ELSE IF token.sig # Sign(key, alg, token.payload)
    THEN [raised |-> "JWTError", claims |-> EmptyClaims]
    ELSE IF token.payload.exp # AbsentExp /\ token.payload.exp < t
    THEN [raised |-> "ExpiredSignatureError", claims |-> EmptyClaims]
    ELSE IF ~RegisteredClaimsValid(token.payload)
    THEN [raised |-> "JWTClaimsError", claims |-> EmptyClaims]
    ELSE [raised |-> "", claims |-> token.payload]

\* the value decode_access_token returns for every JWTError
None == [ok |-> FALSE, claims |-> EmptyClaims]

\* mutant: the failure value says which exception ended the decoding
NoneBecause(raised) == [ok |-> FALSE, claims |-> EmptyClaims, detail |-> raised]

\* "except JWTError: return None"
ReturnedOnJWTError(raised) == None

decode_access_token(token, t) ==
    LET decoded == jwt_decode(token, secret_key, algorithm, t)
    IN IF decoded.raised \in {"JWTError", "ExpiredSignatureError",
                              "JWTClaimsError"}
       THEN ReturnedOnJWTError(decoded.raised)
       ELSE [ok |-> TRUE, claims |-> decoded.claims]

\* Python truth of "payload": None and the empty mapping are both false
Truthy(payload) == payload.ok /\ payload.claims # EmptyClaims

---------------------------------------------------------------------------
(* api/exceptions.py and the exception handler of api/app.py *)

APIException(name, status_code, internal_code, detail) ==
    [name |-> name, api |-> TRUE, status_code |-> status_code,
     internal_code |-> internal_code, detail |-> detail]

UserAlreadyExistsException ==
    APIException("UserAlreadyExistsException", 400, 40001,
                 "User with this email already exists")
InvalidCredentialsException ==
    APIException("InvalidCredentialsException", 401, 40101,
                 "Invalid email or password")
NotAuthenticatedException ==
    APIException("NotAuthenticatedException", 401, 40102, "Not authenticated")
InvalidTokenException ==
    APIException("InvalidTokenException", 401, 40103, "Invalid token")
TokenExpiredException ==
    APIException("TokenExpiredException", 401, 40104, "Token has expired")
UserNotFoundException ==
    APIException("UserNotFoundException", 401, 40105, "User not found")

\* an exception that is no APIException: no handler is registered for it and
\* the framework answers 500
Unclassified(name) ==
    [name |-> name, api |-> FALSE, status_code |-> 500,
     internal_code |-> 0, detail |-> "Internal Server Error"]

NoException ==
    [name |-> "", api |-> FALSE, status_code |-> 0, internal_code |-> 0, detail |-> ""]

---------------------------------------------------------------------------
(* Table "user" *)

User(id, email, hashed_password, created_at) ==
    [id |-> id, email |-> email, hashed_password |-> hashed_password,
     created_at |-> created_at]

\* mutant: the existence check finds nothing
SelectByEmailNothing(rows, email) == {}

\* select(User).where(User.email == email): string equality, case-sensitive
SelectByEmail(rows, email) == {u \in rows : u.email = email}

\* select(User).where(User.id == id)
SelectById(rows, id) == {u \in rows : u.id = id}

\* mutant: the email column has no unique index
NoUniqueIndex(rows, email) == FALSE

\* the unique index ix_user_email rejects an insert whose email a committed
\* row already holds
UniqueViolation(rows, email) == \E u \in rows : u.email = email

---------------------------------------------------------------------------
(* Session authenticator: api/dependencies.py get_current_user *)

\* mutant: "access_token is None", which lets the empty string through
CookieIsNone(access_token) == access_token.kind = "absent"

\* "not access_token": no cookie, or a cookie that is the empty string
CookieMissing(access_token) == access_token.kind \in {"absent", "empty"}

\* "not user_id": payload.get("sub") is None or the empty string
SubjectMissing(user_id) == user_id.form \in {"absent", "empty"}

Raise(exc) == [exc |-> exc, user |-> {}]
Return(user) == [exc |-> NoException, user |-> user]

get_current_user(access_token, rows, t) ==
    IF CookieMissing(access_token) THEN Raise(NotAuthenticatedException)
    ELSE LET payload == decode_access_token(access_token, t) IN
    IF ~Truthy(payload) THEN Raise(InvalidTokenException)
    ELSE LET user_id == payload.claims.sub IN
    IF SubjectMissing(user_id) THEN Raise(InvalidTokenException)
    ELSE IF ParseUuid(user_id) = ValueError THEN Raise(Unclassified("ValueError"))
    ELSE LET user == SelectById(rows, ParseUuid(user_id)) IN
    IF user = {} THEN Raise(UserNotFoundException)
    ELSE Return(user)

---------------------------------------------------------------------------
(* Auth flow controller: service/auth_service.py *)

\* mutant: {"sub": user.email}
SubjectClaimsEmail(user) == [sub |-> NotAUuid, exp |-> AbsentExp]

\* the claims signup and signin put in the token: {"sub": str(user.id)}
SubjectClaims(user) == [sub |-> UuidToStr(user.id), exp |-> AbsentExp]

\* mutant: an unknown email is reported as such
SigninFailureTelling(user_found) ==
    IF user_found THEN InvalidCredentialsException ELSE UserNotFoundException

\* the exception signin raises, whichever operand of "not user or not
\* verify_password(...)" was true
SigninFailure(user_found) == InvalidCredentialsException

signin_user(email, password, rows, t) ==
    LET user == SelectByEmail(rows, email) IN
    IF user = {}
    THEN [exc |-> SigninFailure(FALSE), user |-> {}, token |-> NoCookie]
    ELSE IF \E u \in user : ~verify_password(password, u.hashed_password)
    THEN [exc |-> SigninFailure(TRUE), user |-> {}, token |-> NoCookie]
    ELSE [exc |-> NoException, user |-> user,
          token |-> create_access_token(SubjectClaims(CHOOSE u \in user : TRUE),
                                        NoDelta, t)]

---------------------------------------------------------------------------
(* State *)

Idle == [pc |-> "idle", email |-> "", password |-> "", pending |-> {},
         token |-> NoCookie]

\* a completed request: its inputs, the exception that ended it (or none),
\* the status of the response, the cookie the response sets, the user the
\* handler obtained, how the session is left when the response is sent
\* (committed when the handler returned; when it raised the exception leaves
\* get_async_db_for_router without resuming get_async_db, so the session is
\* still open, nothing committed), and the step of the handler that ended it
Completed(op, email, password, cookie, exc, ok_status, set_cookie, user, at) ==
    [op |-> op, email |-> email, password |-> password, cookie |-> cookie,
     exc |-> exc,
     status_code |-> IF exc = NoException THEN ok_status ELSE exc.status_code,
     set_cookie |-> set_cookie, user |-> user,
     session |-> IF exc = NoException THEN "commit" ELSE "open",
     at |-> at]

NoRequest ==
    [op |-> "none", email |-> "", password |-> "", cookie |-> NoCookie,
     exc |-> NoException, status_code |-> 0, set_cookie |-> NoCookie,
     user |-> {}, session |-> "none", at |-> ""]

---------------------------------------------------------------------------
(* Task messages: taskiq.TaskiqMessage *)

\* Python values that are no UUID text: None and an integer
PyNone == [form |-> "none", n |-> 0]
PyInt(i) == [form |-> "int", n |-> i]

\* "not value": None, the empty string and 0 are false
Falsy(value) ==
    \/ value.form \in {"none", "empty"}
    \/ value.form = "int" /\ value.n = 0

\* labels.get("entity_id_arg_index", 0) when the label is not set
AbsentIndex == -1

\* the labels of a task declared without any
NoLabels ==
    [entity_type |-> "", entity_id_param |-> "", progress_field |-> "",
     entity_id_arg_index |-> AbsentIndex]

\* keyword arguments are a set of <<name, value>> pairs
NoKwargs == {}

\* kwargs.get(name)
KwargsGet(kwargs, name) ==
    IF \E kv \in kwargs : kv[1] = name
    THEN (CHOOSE kv \in kwargs : kv[1] = name)[2]
    ELSE PyNone

---------------------------------------------------------------------------
(* Idle states *)

\* a client that has no cookie and has asked nothing
NoClient == [jar |-> {}, fresh |-> FALSE, trace |-> <<>>]

\* no function of service/security.py has been called
NoCall ==
    [fn |-> "none",
     claims |-> EmptyClaims, expires_delta |-> NoDelta, token |-> NoCookie,
     at |-> 0,
     presented |-> NoCookie, payload |-> None, decoded_at |-> 0,
     password |-> "", hash |-> NoHash,
     plain_password |-> "", hashed_password |-> NoHash,
     user_id |-> AbsentSub,
     raised |-> "", value |-> FALSE]

\* entity_name_to_class_mapping as shipped: {}
EmptyRegistry == {}

\* the ids of the rows of the registered table
Entities == {1, 2}

JobIds == {"j1", "j2"}

NoMessage == [labels |-> NoLabels, args |-> <<>>, kwargs |-> NoKwargs]

\* a worker slot that runs no job
NoJob ==
    [pc |-> "idle", message |-> NoMessage, received |-> NoMessage,
     outcome |-> "", raised |-> "", attempts |-> 0, last_update |-> "none",
     cleared |-> FALSE, failed |-> FALSE, log |-> ""]

\* what a response carries when the handler set no body
NoContent == [value |-> ""]

NoResponse == [status_code |-> 0, content |-> NoContent, set_cookie |-> {}]

\* no request is being handled in the slot
NoTask ==
    [pc |-> "idle", op |-> "none", email |-> "", password |-> "",
     cookie |-> NoCookie, steps |-> <<>>, session |-> "none",
     ended |-> "none", pending |-> {}, payload |-> None, user |-> {},
     token |-> NoCookie, exc |-> NoException, response |-> NoResponse]

ServerInit ==
    /\ users = {}
    /\ credentials = {}
    /\ nextId = 1
    /\ now = 0
    /\ req = [r \in Reqs |-> Idle]
    /\ last = NoRequest

\* no task worker runs
WorkersIdle ==
    /\ registry = EmptyRegistry
    /\ flags = [e \in Entities |-> FALSE]
    /\ jobs = [j \in JobIds |-> NoJob]

Init ==
    /\ ServerInit
    /\ client = NoClient
    /\ call = NoCall
    /\ WorkersIdle
    /\ tasks = [r \in Reqs |-> NoTask]

---------------------------------------------------------------------------
(* POST /auth/signup *)

\* the request slots are interchangeable: a new request takes "r1" when it
\* is free
FirstFree(r) == r = "r1" \/ req["r1"].pc # "idle"

\* the request opens its session; signup_user runs its existence check
SignupCheck(r, email, password) ==
    /\ req[r].pc = "idle"
    /\ FirstFree(r)
    /\ LET existing_user == SelectByEmail(users, email) IN
       IF existing_user # {}
       THEN /\ last' = Completed("signup", email, password, NoCookie,
                                 UserAlreadyExistsException, 201, NoCookie, {},
                                 "check")
            /\ UNCHANGED req
       ELSE /\ req' = [req EXCEPT ![r] = [Idle EXCEPT !.pc = "flush",
                                                      !.email = email,
                                                      !.password = password]]
            /\ UNCHANGED last
    /\ UNCHANGED <<users, credentials, nextId, now>>

\* an insert of an email that another open transaction has inserted waits
\* for that transaction to end
InsertBlocked(r) ==
    \E q \in Reqs \ {r} : \E u \in req[q].pending : u.email = req[r].email

\* hash, add, flush, refresh, create the token
SignupFlush(r) ==
    /\ req[r].pc = "flush"
    /\ ~InsertBlocked(r)
    /\ UniqueViolation(users, req[r].email) \/ nextId <= MaxUuid
    /\ IF UniqueViolation(users, req[r].email)
       THEN /\ last' = Completed("signup", req[r].email, req[r].password,
                                 NoCookie, Unclassified("IntegrityError"), 201,
                                 NoCookie, {}, "flush")
            /\ req' = [req EXCEPT ![r] = Idle]
            /\ UNCHANGED nextId
       ELSE \E salt \in Salts :
            LET user == User(nextId, req[r].email,
                             get_password_hash(req[r].password, salt), now)
            IN /\ req' = [req EXCEPT ![r].pc = "commit",
                                     ![r].pending = {user},
                                     ![r].token =
                                         create_access_token(SubjectClaims(user),
                                                             NoDelta, now)]
               /\ nextId' = nextId + 1
               /\ UNCHANGED last
    /\ UNCHANGED <<users, credentials, now>>

\* the route sets the cookie and returns 201; get_async_db commits
SignupCommit(r) ==
    /\ req[r].pc = "commit"
    /\ users' = users \cup req[r].pending
    /\ credentials' = credentials \cup
                      {<<u.id, req[r].password>> : u \in req[r].pending}
    /\ last' = Completed("signup", req[r].email, req[r].password, NoCookie,
                         NoException, 201, req[r].token, req[r].pending,
                         "commit")
    /\ req' = [req EXCEPT ![r] = Idle]
    /\ UNCHANGED <<nextId, now>>

---------------------------------------------------------------------------
(* POST /auth/signin *)

\* one query, the verification and the token, then get_async_db commits
\* when signin_user returned; the route sets the cookie
Signin(email, password) ==
    /\ LET got == signin_user(email, password, users, now) IN
       last' = Completed("signin", email, password, NoCookie, got.exc, 200,
                         got.token, got.user, "signin")
    /\ UNCHANGED <<users, credentials, nextId, now, req>>

---------------------------------------------------------------------------
(* GET /user/me *)

\* tokens the service has handed out or could have: for each user, one minted
\* at signup or at a signin since
IssuedTokens ==
    UNION {{create_access_token(SubjectClaims(u), NoDelta, t) :
                t \in u.created_at..now} : u \in users}

\* the token a user got at signup
SignupTokens ==
    {create_access_token(SubjectClaims(u), NoDelta, u.created_at) : u \in users}

\* a signup token whose payload was rewritten (another subject, a later
\* expiry) and whose signature was kept
TamperedTokens ==
    {[tok EXCEPT !.payload.sub =
            UuidToStr(IF tok.payload.sub.n = 1 THEN 2 ELSE 1)] :
        tok \in SignupTokens}
    \cup {[tok EXCEPT !.payload.exp = MaxTime + 1] : tok \in SignupTokens}

\* tokens for a known subject signed with another key, or asserting another
\* algorithm (unsigned "none", or HS512 under the configured key)
ForeignTokens ==
    LET claims == [sub |-> UuidToStr(1), exp |-> MaxTime + 1]
    IN {jwt_encode(claims, "attacker-key", algorithm),
        [kind |-> "jwt", alg |-> "none", payload |-> claims, sig |-> NoSig],
        jwt_encode(claims, secret_key, "HS512")}

\* create_access_token takes any claim mapping: tokens under the configured
\* key whose claims no route mints (no sub, an empty sub, a sub that is no
\* UUID, a UUID never inserted, a UUID in another spelling), and {} signed
OddClaimTokens ==
    {create_access_token([sub |-> sub, exp |-> AbsentExp], MaxTime + 1, 0) :
        sub \in {AbsentSub, EmptyStr, NotAUuid, UuidToStr(0),
                 [form |-> "upper", n |-> 1]}}
    \cup {jwt_encode(EmptyClaims, secret_key, algorithm)}

PresentableCookies ==
    {NoCookie, EmptyCookie, MalformedCookie}
    \cup IssuedTokens \cup TamperedTokens \cup ForeignTokens \cup OddClaimTokens

\* get_current_user with the request's session, then the route builds the
\* UserResponse; get_async_db commits when the route returned
GetMe(cookie) ==
    /\ LET got == get_current_user(cookie, users, now) IN
       last' = Completed("me", "", "", cookie, got.exc, 200, NoCookie,
                         got.user, "me")
    /\ UNCHANGED <<users, credentials, nextId, now, req>>

---------------------------------------------------------------------------
(* POST /auth/signout *)

\* mutant: signout removes the account the presented token names
SignoutRemovingUsers ==
    /\ users' = {}
    /\ last' = Completed("signout", "", "", NoCookie, NoException, 200,
                         EmptyCookie, {}, "signout")
    /\ UNCHANGED <<credentials, nextId, now, req>>

\* response.delete_cookie(key="access_token"); the route takes no session and
\* does not read the request
Signout ==
    /\ last' = Completed("signout", "", "", NoCookie, NoException, 200,
                         EmptyCookie, {}, "signout")
    /\ UNCHANGED <<users, credentials, nextId, now, req>>

---------------------------------------------------------------------------
(* Environment *)

Tick ==
    /\ now < MaxTime
    /\ now' = now + 1
    /\ UNCHANGED <<users, credentials, nextId, req, last>>

\* a step of the server leaves the client, the calls and the workers alone
ServerOnly == UNCHANGED <<client, call, registry, flags, jobs, tasks>>

Next ==
    \/ \E r \in Reqs, email \in Emails, password \in Passwords :
          SignupCheck(r, email, password) /\ ServerOnly
    \/ \E r \in Reqs : SignupFlush(r) /\ ServerOnly
    \/ \E r \in Reqs : SignupCommit(r) /\ ServerOnly
    \/ \E email \in Emails, password \in Passwords :
          Signin(email, password) /\ ServerOnly
    \/ \E cookie \in PresentableCookies : GetMe(cookie) /\ ServerOnly
    \/ Signout /\ ServerOnly
    \/ Tick /\ ServerOnly

Spec == Init /\ [][Next]_vars

---------------------------------------------------------------------------
(* A client that keeps the cookie the server sets *)

\* the client sends at most MaxRequests requests
MaxRequests == 4

\* set_auth_cookie: response.set_cookie(key="access_token", value=token,
\* max_age=access_token_expire_minutes * 60); the path defaults to "/"
set_auth_cookie(token) ==
    [key |-> "access_token", value |-> token,
     max_age |-> access_token_expire_minutes, path |-> "/"]

\* mutant: the cookie is deleted under another path than it was set
delete_cookie_of_auth_path(key) ==
    [key |-> key, value |-> EmptyCookie, max_age |-> 0, path |-> "/auth"]

\* response.delete_cookie(key): an empty value, max_age 0, the path "/"
delete_cookie(key) ==
    [key |-> key, value |-> EmptyCookie, max_age |-> 0, path |-> "/"]

\* the Set-Cookie headers of a response
SetCookieHeaders(response) ==
    IF response.op \in {"signup", "signin"} /\ response.exc = NoException
    THEN {set_auth_cookie(response.set_cookie)}
    ELSE IF response.op = "signout"
    THEN {delete_cookie("access_token")}
    ELSE {}

\* the jar after a Set-Cookie header received at time t: the cookie of that
\* name and path is replaced, or removed when max_age is 0
StoreCookie(jar, header, t) ==
    {c \in jar : c.key # header.key \/ c.path # header.path}
    \cup IF header.max_age > 0
         THEN {[key |-> header.key, path |-> header.path,
                value |-> header.value, expires |-> t + header.max_age]}
         ELSE {}

StoreCookies(jar, headers, t) ==
    IF headers = {} THEN jar
    ELSE StoreCookie(jar, CHOOSE h \in headers : TRUE, t)

\* the access_token cookie the client sends at time t: the one it keeps
\* that has not reached its max_age
CookieSent(jar, t) ==
    LET kept == {c \in jar : c.key = "access_token" /\ c.expires > t}
    IN IF kept = {} THEN NoCookie ELSE (CHOOSE c \in kept : TRUE).value

\* the client after a response: its jar updated, the exchange recorded
Received(c, sent, response, t) ==
    LET jar == StoreCookies(c.jar, SetCookieHeaders(response), t)
    IN [jar |-> jar,
        fresh |-> FALSE,
        trace |-> Append(c.trace,
                         [op |-> response.op, email |-> response.email,
                          fresh |-> c.fresh, sent |-> sent,
                          status_code |-> response.status_code,
                          exc |-> response.exc, step |-> response.at,
                          user |-> response.user,
                          set_cookie |-> response.set_cookie,
                          kept |-> CookieSent(jar, t), at |-> t])]

MayAsk == Len(client.trace) < MaxRequests /\ req["r1"].pc = "idle"

ClientSignupCheck(email, password) ==
    /\ MayAsk
    /\ SignupCheck("r1", email, password)
    /\ client' = IF req'["r1"].pc = "idle"
                 THEN Received([client EXCEPT !.fresh = SelectByEmail(users, email) = {}],
                               CookieSent(client.jar, now), last', now)
                 ELSE [client EXCEPT !.fresh = SelectByEmail(users, email) = {}]
    /\ UNCHANGED <<call, registry, flags, jobs, tasks>>

ClientSignupFlush ==
    /\ SignupFlush("r1")
    /\ client' = IF req'["r1"].pc = "idle"
                 THEN Received(client, CookieSent(client.jar, now), last', now)
                 ELSE client
    /\ UNCHANGED <<call, registry, flags, jobs, tasks>>

ClientSignupCommit ==
    /\ SignupCommit("r1")
    /\ client' = Received(client, CookieSent(client.jar, now), last', now)
    /\ UNCHANGED <<call, registry, flags, jobs, tasks>>

ClientGetMe ==
    /\ MayAsk
    /\ GetMe(CookieSent(client.jar, now))
    /\ client' = Received(client, CookieSent(client.jar, now), last', now)
    /\ UNCHANGED <<call, registry, flags, jobs, tasks>>

ClientSignout ==
    /\ MayAsk
    /\ Signout
    /\ client' = Received(client, CookieSent(client.jar, now), last', now)
    /\ UNCHANGED <<call, registry, flags, jobs, tasks>>

ClientNext ==
    \/ \E email \in Emails, password \in Passwords :
          ClientSignupCheck(email, password)
    \/ ClientSignupFlush
    \/ ClientSignupCommit
    \/ ClientGetMe
    \/ ClientSignout
    \/ Tick /\ ServerOnly

ClientSpec == Init /\ [][ClientNext]_vars

---------------------------------------------------------------------------
(* Calls of service/security.py *)

\* the longest expires_delta passed, in minutes
MaxDelta == 2

\* expires_delta: None, timedelta(0) and positive durations
Deltas == {NoDelta} \cup 0..MaxDelta

HashSalts == {"salt1", "salt2"}

\* claim mappings passed as data: with and without 'sub' (a UUID text, any
\* other string, a number), with a private claim, with an 'aud', and with
\* an 'exp' of their own
ClaimMaps ==
    {[sub |-> sub, exp |-> AbsentExp] :
        sub \in {AbsentSub, EmptyStr, NotAUuid, UuidToStr(1), PyInt(7)}}
    \cup {[sub |-> UuidToStr(1), exp |-> AbsentExp, role |-> "admin"],
          [sub |-> UuidToStr(1), exp |-> AbsentExp, aud |-> "api"],
          [sub |-> UuidToStr(1), exp |-> 0]}

CallCreateAccessToken(data, expires_delta) ==
    /\ call' = [NoCall EXCEPT
                   !.fn = "create_access_token",
                   !.claims = data,
                   !.expires_delta = expires_delta,
                   !.token = create_access_token(data, expires_delta, now),
                   !.at = now]
    /\ UNCHANGED <<users, credentials, nextId, now, req, last, client,
                   registry, flags, jobs, tasks>>

\* what can be passed to decode_access_token once a token was created: that
\* token, the same claims signed with another secret, the token asserting
\* another algorithm (unsigned, or HS512 under the configured key), its
\* payload rewritten under the old signature, and text that is no JWT
TokensToDecode ==
    IF call.token.kind # "jwt" THEN {MalformedCookie, EmptyCookie}
    ELSE {call.token,
          jwt_encode(call.token.payload, "attacker-key", algorithm),
          [call.token EXCEPT !.alg = "none", !.sig = NoSig],
          jwt_encode(call.token.payload, secret_key, "HS512"),
          [call.token EXCEPT !.payload.exp = MaxTime + MaxDelta + 1],
          MalformedCookie, EmptyCookie}

CallDecodeAccessToken(token) ==
    /\ call' = [call EXCEPT
                   !.fn = "decode_access_token",
                   !.presented = token,
                   !.payload = decode_access_token(token, now),
                   !.decoded_at = now]
    /\ UNCHANGED <<users, credentials, nextId, now, req, last, client,
                   registry, flags, jobs, tasks>>

CallGetPasswordHash(password, salt) ==
    /\ call' = [NoCall EXCEPT
                   !.fn = "get_password_hash",
                   !.password = password,
                   !.hash = get_password_hash(password, salt)]
    /\ UNCHANGED <<users, credentials, nextId, now, req, last, client,
                   registry, flags, jobs, tasks>>

\* what can be passed as hashed_password: the hash made last, that hash cut
\* short, and a string that is no hash
HashesToVerify ==
    {call.hash, [call.hash EXCEPT !.wellformed = FALSE], NoHash}

CallVerifyPassword(plain_password, hashed_password) ==
    /\ LET got == verify_password_call(plain_password, hashed_password)
       IN call' = [call EXCEPT
                      !.fn = "verify_password",
                      !.plain_password = plain_password,
                      !.hashed_password = hashed_password,
                      !.raised = got.raised,
                      !.value = got.value]
    /\ UNCHANGED <<users, credentials, nextId, now, req, last, client,
                   registry, flags, jobs, tasks>>

SecurityNext ==
    \/ \E data \in ClaimMaps, expires_delta \in Deltas :
          CallCreateAccessToken(data, expires_delta)
    \/ \E token \in TokensToDecode : CallDecodeAccessToken(token)
    \/ \E password \in Passwords, salt \in HashSalts :
          CallGetPasswordHash(password, salt)
    \/ \E plain_password \in Passwords, hashed_password \in HashesToVerify :
          CallVerifyPassword(plain_password, hashed_password)
    \/ Tick /\ ServerOnly

SecuritySpec == Init /\ [][SecurityNext]_vars

---------------------------------------------------------------------------
(* ProgressStateMiddleware: domain/taskiq_middleware.py *)

Message(labels, args, kwargs) ==
    [labels |-> labels, args |-> args, kwargs |-> kwargs]

\* labels that carry the whole progress metadata
ProgressLabels(entity_type, entity_id_arg_index) ==
    [entity_type |-> entity_type, entity_id_param |-> "chapter_id",
     progress_field |-> "generation_in_progress",
     entity_id_arg_index |-> entity_id_arg_index]

\* entity_type alone, and entity_type with entity_id_param but no
\* progress_field
TypeOnlyLabels == [NoLabels EXCEPT !.entity_type = "chapter"]
NoFieldLabels == [TypeOnlyLabels EXCEPT !.entity_id_param = "chapter_id"]

\* the registries of a deployment: as shipped, and with one entity type
Registries == {EmptyRegistry, {"chapter"}}

\* the messages the workers receive: without progress metadata or with part
\* of it; with all of it, the id passed positionally, by keyword, both, as
\* text that is no UUID, as a number, or as the id of no row; with an
\* entity_id_arg_index; and naming an entity type no deployment registers
Messages ==
    {Message(labels, args, NoKwargs) :
        labels \in {NoLabels, TypeOnlyLabels, NoFieldLabels},
        args \in {<<>>, <<PyInt(42)>>}}
    \cup {Message(ProgressLabels("chapter", AbsentIndex), args, kwargs) :
            args \in {<<>>, <<UuidToStr(1)>>, <<NotAUuid>>, <<PyInt(42)>>,
                      <<UuidToStr(0)>>},
            kwargs \in {NoKwargs, {<<"chapter_id", UuidToStr(2)>>}}}
    \cup {Message(ProgressLabels("chapter", 1), args, NoKwargs) :
            args \in {<<UuidToStr(1)>>, <<NotAUuid, UuidToStr(1)>>}}
    \cup {Message(ProgressLabels("course", AbsentIndex), args, NoKwargs) :
            args \in {<<UuidToStr(1)>>, <<PyInt(42)>>}}

\* UUID(entity_id_str): the UUID, or the exception raised: ValueError for a
\* string that spells none, AttributeError (hex.replace) for a number
UuidOf(value) ==
    IF value.form \in UuidForms THEN [raised |-> "", id |-> value.n]
    ELSE IF value.form = "int" THEN [raised |-> "AttributeError", id |-> 0]
    ELSE [raised |-> "ValueError", id |-> 0]

\* what _get_entity_info returns (found = FALSE for None) or raises, and the
\* record it logs
EntityInfo(found, entity_id, raised, log) ==
    [found |-> found, entity_id |-> entity_id, raised |-> raised, log |-> log]

\* labels.get("entity_id_arg_index", 0)
ArgIndex(labels) ==
    IF labels.entity_id_arg_index = AbsentIndex THEN 0
    ELSE labels.entity_id_arg_index

_get_entity_info(message, reg) ==
    LET labels == message.labels IN
    IF labels.entity_type = ""
    THEN EntityInfo(FALSE, 0, "", "info")
    ELSE IF labels.entity_id_param = "" \/ labels.progress_field = ""
    THEN EntityInfo(FALSE, 0, "", "error")
    ELSE IF message.args # <<>> /\ ArgIndex(labels) >= Len(message.args)
    THEN EntityInfo(FALSE, 0, "IndexError", "")
    ELSE LET entity_id_str ==
                 IF message.args # <<>>
                 THEN message.args[ArgIndex(labels) + 1]
                 ELSE KwargsGet(message.kwargs, labels.entity_id_param)
    IN IF Falsy(entity_id_str)
       THEN EntityInfo(FALSE, 0, "", "error")
       ELSE IF UuidOf(entity_id_str).raised \in {"ValueError", "TypeError"}
       THEN EntityInfo(FALSE, 0, "", "error")
       ELSE IF UuidOf(entity_id_str).raised # ""
       THEN EntityInfo(FALSE, 0, UuidOf(entity_id_str).raised, "")
       ELSE IF labels.entity_type \notin reg
       THEN EntityInfo(FALSE, 0, "", "error")
       ELSE EntityInfo(TRUE, UuidOf(entity_id_str).id, "", "")

\* mutant: the update inverts the flag instead of assigning it
UpdateFlagInverting(fl, entity_id, in_progress) ==
    [e \in DOMAIN fl |-> IF e = entity_id THEN ~fl[e] ELSE fl[e]]

\* update(entity_class).where(entity_class.id == entity_id)
\*     .values({progress_field: in_progress})
UpdateFlag(fl, entity_id, in_progress) ==
    [e \in DOMAIN fl |-> IF e = entity_id THEN in_progress ELSE fl[e]]

\* what a hook leaves: the exception that escapes it, the value it returns
\* (NoMessage for None), the flags, whether an update was attempted, with
\* which value and how it ended, and the level of the record logged
Effect(raised, fl, attempted, in_progress, update, log) ==
    [raised |-> raised, returned |-> NoMessage, flags |-> fl,
     attempted |-> attempted, in_progress |-> in_progress, update |-> update,
     log |-> log]

\* "with sync_db_session() as session": how the session is left when the
\* statements under "with" raise (raises) or do not, and whether the
\* exception leaves the context manager
sync_db_session(raises) ==
    IF raises
    THEN [ended |-> "rollback", session |-> "closed", raised |-> TRUE]
    ELSE [ended |-> "commit", session |-> "closed", raised |-> FALSE]

\* db_ok: whether the session's execute and commit go through; a failure is
\* caught by "except Exception" and logged
_set_in_progress(message, in_progress, reg, fl, db_ok) ==
    LET entity_info == _get_entity_info(message, reg) IN
    IF entity_info.raised # ""
    THEN Effect(entity_info.raised, fl, FALSE, in_progress, "none",
                entity_info.log)
    ELSE IF ~entity_info.found
    THEN Effect("", fl, FALSE, in_progress, "none", entity_info.log)
    ELSE IF sync_db_session(~db_ok).ended = "commit"
    THEN Effect("", UpdateFlag(fl, entity_info.entity_id, in_progress), TRUE,
                in_progress, "committed", "info")
    ELSE Effect("", fl, TRUE, in_progress, "failed", "error")

\* mutant: pre_execute clears the flag
pre_execute_clearing(message, reg, fl, db_ok) ==
    _set_in_progress(message, FALSE, reg, fl, db_ok)

\* self._set_in_progress(message, True); return message
pre_execute(message, reg, fl, db_ok) ==
    LET effect == _set_in_progress(message, TRUE, reg, fl, db_ok)
    IN IF effect.raised = "" THEN [effect EXCEPT !.returned = message]
       ELSE effect

post_execute(message, reg, fl, db_ok) ==
    _set_in_progress(message, FALSE, reg, fl, db_ok)

\* mutant: on_error sets the flag
on_error_setting(message, reg, fl, db_ok) ==
    _set_in_progress(message, TRUE, reg, fl, db_ok)

on_error(message, reg, fl, db_ok) ==
    _set_in_progress(message, FALSE, reg, fl, db_ok)

\* the job after a hook
AfterHook(job, pc, effect) ==
    [job EXCEPT !.pc = pc,
                !.raised = effect.raised,
                !.attempts = @ + (IF effect.attempted THEN 1 ELSE 0),
                !.last_update = effect.update,
                !.cleared = @ \/ (effect.update = "committed"
                                  /\ ~effect.in_progress),
                !.failed = @ \/ effect.update = "failed",
                !.log = effect.log]

\* the worker slots are interchangeable: a job takes "j1" when it is free
FirstIdle(j) == j = "j1" \/ jobs["j1"].pc # "idle"

\* a worker receives the message and runs pre_execute; the job body starts
\* when pre_execute returns, with the message it returns
PreExecute(j, message, db_ok) ==
    /\ jobs[j].pc = "idle"
    /\ FirstIdle(j)
    /\ LET effect == pre_execute(message, registry, flags, db_ok)
           job == AfterHook([jobs[j] EXCEPT !.message = message],
                            IF effect.raised = "" THEN "running" ELSE "aborted",
                            effect)
       IN /\ jobs' = [jobs EXCEPT ![j] =
                         [job EXCEPT !.received = effect.returned]]
          /\ flags' = effect.flags
    /\ UNCHANGED <<users, credentials, nextId, now, req, last, client, call,
                   registry, tasks>>

\* the job body returns
JobReturns(j) ==
    /\ jobs[j].pc = "running"
    /\ jobs' = [jobs EXCEPT ![j].pc = "returned", ![j].outcome = "returned"]
    /\ UNCHANGED <<users, credentials, nextId, now, req, last, client, call,
                   registry, flags, tasks>>

\* the job body raises
JobRaises(j) ==
    /\ jobs[j].pc = "running"
    /\ jobs' = [jobs EXCEPT ![j].pc = "raised", ![j].outcome = "raised"]
    /\ UNCHANGED <<users, credentials, nextId, now, req, last, client, call,
                   registry, flags, tasks>>

\* the worker runs on_error for the job that raised
OnError(j, db_ok) ==
    /\ jobs[j].pc = "raised"
    /\ LET effect == on_error(jobs[j].received, registry, flags, db_ok)
       IN /\ jobs' = [jobs EXCEPT ![j] = AfterHook(jobs[j], "errored", effect)]
          /\ flags' = effect.flags
    /\ UNCHANGED <<users, credentials, nextId, now, req, last, client, call,
                   registry, tasks>>

\* the worker runs post_execute with the result, of a job that returned
\* and of one that raised
PostExecute(j, db_ok) ==
    /\ jobs[j].pc \in {"returned", "errored"}
    /\ LET effect == post_execute(jobs[j].received, registry, flags, db_ok)
       IN /\ jobs' = [jobs EXCEPT ![j] = AfterHook(jobs[j], "done", effect)]
          /\ flags' = effect.flags
    /\ UNCHANGED <<users, credentials, nextId, now, req, last, client, call,
                   registry, tasks>>

WorkerInit ==
    /\ ServerInit
    /\ client = NoClient
    /\ call = NoCall
    /\ registry \in Registries
    /\ flags = [e \in Entities |-> FALSE]
    /\ jobs = [j \in JobIds |-> NoJob]
    /\ tasks = [r \in Reqs |-> NoTask]

WorkerNext ==
    \/ \E j \in JobIds, message \in Messages, db_ok \in BOOLEAN :
          PreExecute(j, message, db_ok)
    \/ \E j \in JobIds : JobReturns(j)
    \/ \E j \in JobIds : JobRaises(j)
    \/ \E j \in JobIds, db_ok \in BOOLEAN : OnError(j, db_ok)
    \/ \E j \in JobIds, db_ok \in BOOLEAN : PostExecute(j, db_ok)

WorkerSpec == WorkerInit /\ [][WorkerNext]_vars

---------------------------------------------------------------------------
(* The application, one task per request: api/app.py, api/routes *)

\* mutant: the payload of FastAPI's own HTTPException handler
http_exception_handler(exc) ==
    [status_code |-> exc.status_code,
     content |-> [detail |-> exc.detail],
     set_cookie |-> {}]

\* @app.exception_handler(APIException)
api_exception_handler(exc) ==
    [status_code |-> exc.status_code,
     content |-> [internal_code |-> exc.internal_code,
                  detail |-> exc.detail,
                  status_code |-> exc.status_code],
     set_cookie |-> {}]

\* an exception no handler is registered for: the framework's 500
server_error_response(exc) ==
    [status_code |-> 500, content |-> [value |-> "Internal Server Error"],
     set_cookie |-> {}]

\* mutant: ping answers like health_check
ping_like_health == "OK"

read_root == "OK"
health_check == "OK"
ping == "pong"

\* AuthResponse(message=...)
AuthResponse(message) == [message |-> message]

\* UserResponse(id=..., email=..., created_at=...)
UserResponse(current_user) ==
    [id |-> current_user.id, email |-> current_user.email,
     created_at |-> current_user.created_at]

\* the routes that take fastapi_db_dep, directly or through get_current_user
DbOps == {"signup", "signin", "me"}
HealthOps == {"root", "health", "ping"}

\* the requests a client may send
AppCookies ==
    {NoCookie, EmptyCookie, MalformedCookie} \cup SignupTokens
    \cup OddClaimTokens

Request(op, email, password, cookie) ==
    [op |-> op, email |-> email, password |-> password, cookie |-> cookie]

AppRequests ==
    {Request("signup", email, "Secret123!", NoCookie) : email \in Emails}
    \cup {Request("signin", email, password, NoCookie) :
            email \in Emails, password \in Passwords}
    \cup {Request("me", "", "", cookie) : cookie \in AppCookies}
    \cup {Request(op, "", "", cookie) :
            op \in {"signout"} \cup HealthOps,
            cookie \in {NoCookie, MalformedCookie} \cup SignupTokens}

\* the requests that arrive while another is being handled
ConcurrentRequests ==
    {Request("signup", email, "Secret123!", NoCookie) : email \in Emails}
    \cup {Request("signin", "a@b.com", "Secret123!", NoCookie),
          Request("me", "", "", NoCookie),
          Request("ping", "", "", NoCookie)}

RequestsOf(r) == IF r = "r1" THEN AppRequests ELSE ConcurrentRequests

\* the task has appended a step to what it has done
Did(task, step) == [task EXCEPT !.steps = Append(@, step)]

\* the step raises
Raises(task, step, exc) ==
    [Did(task, step) EXCEPT !.pc = "raised", !.exc = exc]

\* ph.hash and ph.verify are called in the coroutine itself: until the call
\* returns, the thread of the event loop runs nothing else
Blocking(task) == task.pc \in {"hashing", "verifying"}

\* the event loop can run the task: no other task keeps its thread
Runnable(r) == \A q \in Reqs \ {r} : ~Blocking(tasks[q])

\* the slot holds no request, or one that was answered and whose session
\* was closed
Free(r) == tasks[r].pc \in {"idle", "done"} /\ tasks[r].session # "open"

\* an action of the application leaves the rest alone
AppOnly ==
    UNCHANGED <<credentials, now, req, last, client, call, registry, flags,
                jobs>>

\* the request arrives and its dependencies are resolved:
\* get_async_db_for_router opens the session and yields it
Receive(r, request) ==
    /\ Free(r)
    /\ Runnable(r)
    /\ tasks' = [tasks EXCEPT ![r] =
          [NoTask EXCEPT
              !.pc = CASE request.op = "me" -> "cookie"
                       [] request.op \in {"signup", "signin"} -> "select"
                       [] OTHER -> "route",
              !.op = request.op,
              !.email = request.email,
              !.password = request.password,
              !.cookie = request.cookie,
              !.session = IF request.op \in DbOps THEN "open" ELSE "none",
              !.steps = IF request.op \in DbOps THEN <<"session">> ELSE <<>>]]
    /\ UNCHANGED <<users, nextId>>
    /\ AppOnly

\* mutant: the cookie is not looked at before the token is decoded
AuthExtractUnchecked(r) ==
    /\ tasks[r].pc = "cookie"
    /\ Runnable(r)
    /\ tasks' = [tasks EXCEPT ![r] =
                    [Did(tasks[r], "cookies.get") EXCEPT !.pc = "decode"]]
    /\ UNCHANGED <<users, nextId>>
    /\ AppOnly

\* get_current_user: access_token = request.cookies.get("access_token")
AuthExtract(r) ==
    /\ tasks[r].pc = "cookie"
    /\ Runnable(r)
    /\ tasks' = [tasks EXCEPT ![r] =
          IF CookieMissing(tasks[r].cookie)
          THEN Raises(tasks[r], "cookies.get", NotAuthenticatedException)
          ELSE [Did(tasks[r], "cookies.get") EXCEPT !.pc = "decode"]]
    /\ UNCHANGED <<users, nextId>>
    /\ AppOnly

\* get_current_user: payload = decode_access_token(access_token), then
\* user_id = payload.get("sub")
AuthDecode(r) ==
    /\ tasks[r].pc = "decode"
    /\ Runnable(r)
    /\ LET payload == decode_access_token(tasks[r].cookie, now) IN
       tasks' = [tasks EXCEPT ![r] =
          IF ~Truthy(payload)
          THEN Raises(tasks[r], "decode_access_token", InvalidTokenException)
          ELSE IF SubjectMissing(payload.claims.sub)
          THEN Raises([tasks[r] EXCEPT !.payload = payload],
                      "decode_access_token", InvalidTokenException)
          ELSE [Did(tasks[r], "decode_access_token") EXCEPT
                   !.pc = "lookup", !.payload = payload]]
    /\ UNCHANGED <<users, nextId>>
    /\ AppOnly

\* get_current_user: select(User).where(User.id == UUID(user_id)) with the
\* request's session
AuthLookup(r) ==
    /\ tasks[r].pc = "lookup"
    /\ Runnable(r)
    /\ LET user_id == tasks[r].payload.claims.sub IN
       tasks' = [tasks EXCEPT ![r] =
          IF ParseUuid(user_id) = ValueError
          THEN Raises(tasks[r], "UUID", Unclassified("ValueError"))
          ELSE LET user == SelectById(users, ParseUuid(user_id)) IN
               IF user = {}
               THEN Raises(tasks[r], "select", UserNotFoundException)
               ELSE [Did(tasks[r], "select") EXCEPT !.pc = "route",
                                                     !.user = user]]
    /\ UNCHANGED <<users, nextId>>
    /\ AppOnly

\* signin_user: the query for the user of the email; "not user" ends the
\* request before verify_password is called
SigninLookup(r) ==
    /\ tasks[r].pc = "select"
    /\ tasks[r].op = "signin"
    /\ Runnable(r)
    /\ LET user == SelectByEmail(users, tasks[r].email) IN
       tasks' = [tasks EXCEPT ![r] =
          IF user = {}
          THEN Raises(tasks[r], "select", SigninFailure(FALSE))
          ELSE [Did(tasks[r], "select") EXCEPT !.pc = "verifying",
                                                !.user = user]]
    /\ UNCHANGED <<users, nextId>>
    /\ AppOnly

\* signin_user: verify_password returns, then create_access_token
SigninVerified(r) ==
    /\ tasks[r].pc = "verifying"
    /\ Runnable(r)
    /\ LET user == CHOOSE u \in tasks[r].user : TRUE IN
       tasks' = [tasks EXCEPT ![r] =
          IF ~verify_password(tasks[r].password, user.hashed_password)
          THEN [Raises(tasks[r], "verify_password", SigninFailure(TRUE))
                   EXCEPT !.user = {}]
          ELSE [Did(Did(tasks[r], "verify_password"), "create_access_token")
                   EXCEPT !.pc = "route",
                          !.token = create_access_token(SubjectClaims(user),
                                                        NoDelta, now)]]
    /\ UNCHANGED <<users, nextId>>
    /\ AppOnly

\* signup_user: the query for a user of the email
SignupLookup(r) ==
    /\ tasks[r].pc = "select"
    /\ tasks[r].op = "signup"
    /\ Runnable(r)
    /\ LET existing_user == SelectByEmail(users, tasks[r].email) IN
       tasks' = [tasks EXCEPT ![r] =
          IF existing_user # {}
          THEN Raises(tasks[r], "select", UserAlreadyExistsException)
          ELSE [Did(tasks[r], "select") EXCEPT !.pc = "hashing"]]
    /\ UNCHANGED <<users, nextId>>
    /\ AppOnly

\* the id and created_at of a User object that was not flushed yet
Unset == 0

\* signup_user: get_password_hash returns, then User(...) and db.add(user)
SignupHashed(r) ==
    /\ tasks[r].pc = "hashing"
    /\ Runnable(r)
    /\ \E salt \in Salts :
          tasks' = [tasks EXCEPT ![r] =
             [Did(Did(tasks[r], "get_password_hash"), "add") EXCEPT
                 !.pc = "flush",
                 !.user = {User(Unset, tasks[r].email,
                                get_password_hash(tasks[r].password, salt),
                                Unset)}]]
    /\ UNCHANGED <<users, nextId>>
    /\ AppOnly

\* an insert of an email that another open transaction has inserted waits
\* for that transaction to end
FlushBlocked(r) ==
    \E q \in Reqs \ {r} : \E u \in tasks[q].pending : u.email = tasks[r].email

\* signup_user: db.flush() inserts the row, db.refresh(user) reads it back,
\* then create_access_token
SignupFlushed(r) ==
    /\ tasks[r].pc = "flush"
    /\ Runnable(r)
    /\ ~FlushBlocked(r)
    /\ UniqueViolation(users, tasks[r].email) \/ nextId <= MaxUuid
    /\ IF UniqueViolation(users, tasks[r].email)
       THEN /\ tasks' = [tasks EXCEPT ![r] =
                  [Raises(tasks[r], "flush", Unclassified("IntegrityError"))
                      EXCEPT !.user = {}]]
            /\ UNCHANGED nextId
       ELSE LET object == CHOOSE u \in tasks[r].user : TRUE
                user == [object EXCEPT !.id = nextId, !.created_at = now]
            IN /\ tasks' = [tasks EXCEPT ![r] =
                     [Did(Did(Did(tasks[r], "flush"), "refresh"),
                          "create_access_token") EXCEPT
                         !.pc = "route",
                         !.pending = {user},
                         !.user = {user},
                         !.token = create_access_token(SubjectClaims(user),
                                                       NoDelta, now)]]
               /\ nextId' = nextId + 1
    /\ UNCHANGED users
    /\ AppOnly

\* what the route function returns, with the cookies it sets
RouteResponse(task) ==
    CASE task.op = "signup" ->
           [status_code |-> 201,
            content |-> AuthResponse("User created successfully"),
            set_cookie |-> {set_auth_cookie(task.token)}]
      [] task.op = "signin" ->
           [status_code |-> 200,
            content |-> AuthResponse("Signed in successfully"),
            set_cookie |-> {set_auth_cookie(task.token)}]
      [] task.op = "signout" ->
           [status_code |-> 200,
            content |-> AuthResponse("Signed out successfully"),
            set_cookie |-> {delete_cookie("access_token")}]
      [] task.op = "me" ->
           [status_code |-> 200,
            content |-> UserResponse(CHOOSE u \in task.user : TRUE),
            set_cookie |-> {}]
      [] task.op = "root" ->
           [status_code |-> 200, content |-> [value |-> read_root],
            set_cookie |-> {}]
      [] task.op = "health" ->
           [status_code |-> 200, content |-> [value |-> health_check],
            set_cookie |-> {}]
      [] task.op = "ping" ->
           [status_code |-> 200, content |-> [value |-> ping],
            set_cookie |-> {}]

\* the route function returns; a route without a session is answered
RouteReturns(r) ==
    /\ tasks[r].pc = "route"
    /\ Runnable(r)
    /\ tasks' = [tasks EXCEPT ![r] =
          [Did(tasks[r], "route") EXCEPT
              !.pc = IF tasks[r].op \in DbOps THEN "exit" ELSE "done",
              !.response = RouteResponse(tasks[r])]]
    /\ UNCHANGED <<users, nextId>>
    /\ AppOnly

\* get_async_db_for_router is resumed after its yield: its "async for" asks
\* get_async_db for the next session, get_async_db commits and leaves
\* "async with", which closes the session
ExitSession(r) ==
    /\ tasks[r].pc = "exit"
    /\ Runnable(r)
    /\ users' = users \cup tasks[r].pending
    /\ tasks' = [tasks EXCEPT ![r] =
          [Did(Did(tasks[r], "commit"), "close") EXCEPT
              !.pc = "done", !.session = "closed", !.ended = "commit",
              !.pending = {}]]
    /\ UNCHANGED nextId
    /\ AppOnly

\* the exception is thrown into get_async_db_for_router at its yield and
\* leaves it through the body of "async for": get_async_db is not resumed,
\* it stays suspended at its own yield with the session open. The exception
\* handler of the application answers.
HandleException(r) ==
    /\ tasks[r].pc = "raised"
    /\ Runnable(r)
    /\ tasks' = [tasks EXCEPT ![r] =
          [tasks[r] EXCEPT
              !.pc = "done",
              !.response = IF tasks[r].exc.api
                           THEN api_exception_handler(tasks[r].exc)
                           ELSE server_error_response(tasks[r].exc)]]
    /\ UNCHANGED <<users, nextId>>
    /\ AppOnly

\* the generator get_async_db, left suspended, is finalized by the event
\* loop when it is collected: GeneratorExit is no Exception, "except
\* Exception" is passed by, and leaving "async with" closes the session,
\* which drops its transaction
Finalize(r) ==
    /\ tasks[r].pc = "done"
    /\ tasks[r].session = "open"
    /\ Runnable(r)
    /\ tasks' = [tasks EXCEPT ![r] =
          [Did(tasks[r], "close") EXCEPT
              !.session = "closed", !.ended = "close", !.pending = {}]]
    /\ UNCHANGED <<users, nextId>>
    /\ AppOnly

---------------------------------------------------------------------------
(* UserService: service/user_service.py *)

\* what a method of the service leaves: the exception it raises and the rows
ServiceResult(raised, rows) == [raised |-> raised, rows |-> rows]

update_user_email(rows, user_id, new_email) ==
    ServiceResult("NotImplementedError", rows)

\* mutant: delete_user deletes the row of the id
delete_user_deleting(rows, user_id) ==
    ServiceResult("", {u \in rows : u.id # ParseUuid(user_id)})

delete_user(rows, user_id) ==
    ServiceResult("NotImplementedError", rows)

\* the ids a caller may pass: of a row and of none
UserIds == {UuidToStr(1), UuidToStr(0)}

CallUpdateUserEmail(user_id, new_email) ==
    /\ LET result == update_user_email(users, user_id, new_email)
       IN /\ users' = result.rows
          /\ call' = [NoCall EXCEPT !.fn = "update_user_email",
                                    !.user_id = user_id,
                                    !.raised = result.raised]
    /\ UNCHANGED <<credentials, nextId, now, req, last, client, registry,
                   flags, jobs, tasks>>

CallDeleteUser(user_id) ==
    /\ LET result == delete_user(users, user_id)
       IN /\ users' = result.rows
          /\ call' = [NoCall EXCEPT !.fn = "delete_user",
                                    !.user_id = user_id,
                                    !.raised = result.raised]
    /\ UNCHANGED <<credentials, nextId, now, req, last, client, registry,
                   flags, jobs, tasks>>

\* a step of the handling of the request
TaskStep(r) ==
    \/ AuthExtract(r)
    \/ AuthDecode(r)
    \/ AuthLookup(r)
    \/ SigninLookup(r)
    \/ SigninVerified(r)
    \/ SignupLookup(r)
    \/ SignupHashed(r)
    \/ SignupFlushed(r)
    \/ RouteReturns(r)
    \/ ExitSession(r)
    \/ HandleException(r)

AppNext ==
    \/ \E r \in Reqs : \E request \in RequestsOf(r) : Receive(r, request)
    \/ \E r \in Reqs : TaskStep(r)
    \/ \E r \in Reqs : Finalize(r)

AppSpec == Init /\ [][AppNext]_vars

\* the requests sent while the methods of UserService are called
ServiceRequests ==
    ConcurrentRequests
    \cup {Request("signin", "a@b.com", "hunter2", NoCookie),
          Request("signout", "", "", NoCookie)}
    \cup {Request("me", "", "", cookie) : cookie \in SignupTokens}

ServiceNext ==
    \/ \E r \in Reqs, request \in ServiceRequests : Receive(r, request)
    \/ \E r \in Reqs : TaskStep(r)
    \/ \E r \in Reqs : Finalize(r)
    \/ \E user_id \in UserIds, new_email \in Emails :
          CallUpdateUserEmail(user_id, new_email)
    \/ \E user_id \in UserIds : CallDeleteUser(user_id)

ServiceSpec == Init /\ [][ServiceNext]_vars

---------------------------------------------------------------------------
(* Signup *)

EmailPersisted(email) == \E u \in users : u.email = email

\* C1: signup_user(email, password), called while a user with exactly that
\* email is persisted, fails with UserAlreadyExists (400, 40001); the
\* persisted users are unchanged, the request inserts no row and its session
\* commits nothing.
C1_DuplicateSignupRejected ==
    [][\A r \in Reqs, email \in Emails, password \in Passwords :
          (SignupCheck(r, email, password) /\ EmailPersisted(email))
          => /\ last'.op = "signup"
             /\ last'.email = email
             /\ last'.exc = UserAlreadyExistsException
             /\ last'.status_code = 400
             /\ last'.session # "commit"
             /\ last'.user = {}
             /\ users' = users
             /\ req'[r].pending = {}]_vars

C1_Witness ==
    /\ last.op = "signup"
    /\ last.at = "check"
    /\ last.exc = UserAlreadyExistsException
    /\ EmailPersisted(last.email)

\* C2: a signup with an email no persisted user holds adds, when its session
\* commits, exactly one user record, with that email; the token it returns
\* has that record's id as 'sub', and get_current_user presented with that
\* token (before its expiry) returns that record.
C2_FreshSignupPersistsOneAndTokenResolves ==
    [][\A r \in Reqs :
          SignupCommit(r)
          => /\ ~EmailPersisted(req[r].email)
             /\ \E u \in users' :
                   /\ u \notin users
                   /\ users' = users \cup {u}
                   /\ SelectByEmail(users', req[r].email) = {u}
                   /\ last'.exc = NoException
                   /\ last'.status_code = 201
                   /\ last'.session = "commit"
                   /\ last'.user = {u}
                   /\ last'.set_cookie.payload.sub = UuidToStr(u.id)
                   /\ last'.set_cookie.payload.exp >= now'
                      => get_current_user(last'.set_cookie, users', now')
                         = Return({u})]_vars

C2_Witness ==
    /\ last.op = "signup"
    /\ last.exc = NoException
    /\ last.user # {}
    /\ last.user \subseteq users
    /\ get_current_user(last.set_cookie, users, now) = Return(last.user)

\* C3: whatever the interleaving of signup requests, two that pass the
\* existence check for the same email before either inserts included, no two
\* persisted users have the same email string.
C3_EmailUnique ==
    \A u, v \in users : u.email = v.email => u = v

\* two signups for one email both passed the check; one is committed and the
\* other's insert has been refused
C3_Witness ==
    /\ last.op = "signup"
    /\ last.at = "flush"
    /\ last.exc # NoException
    /\ Cardinality(SelectByEmail(users, last.email)) = 1

\* C4: the signup that loses the race, its insert refused by the unique
\* index, fails with UserAlreadyExists like the existence check does.
C4_RaceLoserGetsUserAlreadyExists ==
    (last.op = "signup" /\ last.at = "flush" /\ last.exc # NoException)
    => last.exc = UserAlreadyExistsException

---------------------------------------------------------------------------
(* Signin *)

NoSuchUser(email) == ~EmailPersisted(email)

\* a user has the email and signed up with another password
WrongPassword(email, password) ==
    \E u \in users : u.email = email /\ <<u.id, password>> \notin credentials

\* the user with the email signed up with the password
RightPassword(email, password) ==
    \E u \in users : u.email = email /\ <<u.id, password>> \in credentials

\* C5: signin_user fails with one and the same error, InvalidCredentials
\* (401, 40101, "Invalid email or password"), when no user has the email and
\* when a user has it and the password does not verify; every failed signin
\* answers with it and sets no cookie.
C5_SigninFailuresIdentical ==
    /\ (last.op = "signin" /\ last.exc # NoException)
       => /\ last.exc = InvalidCredentialsException
          /\ last.status_code = 401
          /\ last.set_cookie = NoCookie
          /\ last.user = {}
    /\ \A e1, e2 \in Emails, p1, p2 \in Passwords :
          (NoSuchUser(e1) /\ WrongPassword(e2, p2))
          => /\ signin_user(e1, p1, users, now).exc = InvalidCredentialsException
             /\ signin_user(e2, p2, users, now) = signin_user(e1, p1, users, now)

\* a signin with a wrong password has failed while another email is unknown
C5_Witness ==
    /\ last.op = "signin"
    /\ last.exc = InvalidCredentialsException
    /\ WrongPassword(last.email, last.password)
    /\ \E e \in Emails : NoSuchUser(e)

\* C6: signin_user with the email of a persisted user and the password that
\* user signed up with succeeds: it returns that user and a token whose
\* 'sub' is that user's id.
C6_SigninSucceeds ==
    [][\A email \in Emails, password \in Passwords :
          (Signin(email, password) /\ RightPassword(email, password))
          => /\ last'.op = "signin"
             /\ last'.exc = NoException
             /\ last'.status_code = 200
             /\ \E u \in users :
                   /\ u.email = email
                   /\ last'.user = {u}
                   /\ last'.set_cookie.kind = "jwt"
                   /\ last'.set_cookie.payload.sub = UuidToStr(u.id)
                   /\ decode_access_token(last'.set_cookie, now').claims.sub
                      = UuidToStr(u.id)]_vars

C6_Witness ==
    /\ last.op = "signin"
    /\ last.exc = NoException
    /\ \E u \in last.user :
          /\ <<u.id, last.password>> \in credentials
          /\ last.set_cookie.payload.sub = UuidToStr(u.id)

---------------------------------------------------------------------------
(* get_current_user *)

\* the token is the signature of its own header and payload under the
\* configured key
CorrectlySigned(cookie) ==
    /\ cookie.kind = "jwt"
    /\ cookie.sig = Sign(secret_key, cookie.alg, cookie.payload)

BadSignature(cookie) == cookie.kind = "jwt" /\ ~CorrectlySigned(cookie)

OtherAlgorithm(cookie) == cookie.kind = "jwt" /\ cookie.alg # algorithm

Malformed(cookie) == cookie.kind = "malformed"

LacksSub(cookie) == cookie.kind = "jwt" /\ cookie.payload.sub = AbsentSub

\* C7: get_current_user on a request with no access_token cookie, or an
\* empty one, fails with NotAuthenticated (401, 40102).
C7_NoCookieNotAuthenticated ==
    (last.op = "me" /\ last.cookie \in {NoCookie, EmptyCookie})
    => /\ last.exc = NotAuthenticatedException
       /\ last.exc.internal_code = 40102
       /\ last.status_code = 401
       /\ last.user = {}

C7_Witness ==
    /\ last.op = "me"
    /\ last.cookie = EmptyCookie
    /\ last.exc = NotAuthenticatedException

C9_ExpiredTokenGetsTokenExpired ==
    [][\A cookie \in PresentableCookies :
          (/\ GetMe(cookie)
           /\ CorrectlySigned(cookie)
           /\ cookie.alg = algorithm
           /\ cookie.payload.exp # AbsentExp
           /\ cookie.payload.exp < now)
          => /\ last'.status_code = 401
             /\ last'.exc = TokenExpiredException]_vars

\* the text of the subject spells the id of a persisted user
SubjectPersisted(sub) ==
    \E u \in users : sub.form \in UuidForms /\ sub.n = u.id

\* C10: get_current_user with a token that decodes and has a subject fails
\* with UserNotFound (401, 40105) whenever no user with that id is persisted
\* at the time of the call.
C10_UnknownSubjectGetsUserNotFound ==
    [][\A cookie \in PresentableCookies :
          (/\ GetMe(cookie)
           /\ CorrectlySigned(cookie)
           /\ cookie.alg = algorithm
           /\ cookie.payload.exp # AbsentExp => cookie.payload.exp >= now
           /\ cookie.payload.sub \notin {AbsentSub, EmptyStr}
           /\ ~SubjectPersisted(cookie.payload.sub))
          => /\ last'.status_code = 401
             /\ last'.exc = UserNotFoundException
             /\ last'.user = {}]_vars

\* the same, for the subjects that are the text of a UUID
UnknownUuidGetsUserNotFound ==
    [][\A cookie \in PresentableCookies :
          (/\ GetMe(cookie)
           /\ CorrectlySigned(cookie)
           /\ cookie.alg = algorithm
           /\ cookie.payload.exp # AbsentExp => cookie.payload.exp >= now
           /\ cookie.payload.sub.form \in UuidForms
           /\ ~SubjectPersisted(cookie.payload.sub))
          => /\ last'.status_code = 401
             /\ last'.exc = UserNotFoundException
             /\ last'.user = {}]_vars

---------------------------------------------------------------------------
(* Signout *)

Accepted(cookie, rows, t) == get_current_user(cookie, rows, t).exc = NoException

\* C11: signout never fails (200, no exception) and changes no server-side
\* state: the persisted users and the requests in flight are unchanged; and
\* across a signout, as across every other step (those that change neither
\* the users nor the clock change nothing get_current_user reads), a token
\* that get_current_user accepts and that has not expired after the step is
\* accepted after it, with the same user.
C11_SignoutChangesNoServerState ==
    [][/\ Signout
          => /\ last'.op = "signout"
             /\ last'.exc = NoException
             /\ last'.status_code = 200
             /\ users' = users
             /\ credentials' = credentials
             /\ req' = req
             /\ \A cookie \in PresentableCookies :
                   get_current_user(cookie, users', now')
                   = get_current_user(cookie, users, now)
       /\ <<users, now>>' # <<users, now>>
          => \A cookie \in PresentableCookies :
                (Accepted(cookie, users, now) /\ cookie.payload.exp >= now')
                => get_current_user(cookie, users', now')
                   = get_current_user(cookie, users, now)]_vars

\* a signout has been answered while the service accepts a token it issued
C11_Witness ==
    /\ last.op = "signout"
    /\ last.status_code = 200
    /\ \E cookie \in IssuedTokens : Accepted(cookie, users, now)

---------------------------------------------------------------------------
(* End to end *)

\* the i-th exchange of the client is a signup answered 201
SignedUp(i) ==
    /\ client.trace[i].op = "signup"
    /\ client.trace[i].status_code = 201

\* the cookie set by exchange i is still kept, and its token not expired,
\* when exchange j is made
StillFresh(i, j) ==
    /\ client.trace[j].at < client.trace[i].at + access_token_expire_minutes
    /\ client.trace[j].at <= client.trace[i].set_cookie.payload.exp

\* C12: for a client that keeps the cookie the server sets: a signup with
\* an email no user holds answers 201 and sets the cookie; a GET /user/me
\* that follows it (within the cookie's max_age) sends that cookie and
\* answers 200 with the user of that email; a signout answers 200 and
\* leaves the client without the cookie; and a GET /user/me that follows the
\* signout sends no cookie and answers 401.
C12_EndToEndScenario ==
    \A i \in 1..Len(client.trace) :
       LET x == client.trace[i] IN
       /\ (x.op = "signup" /\ x.fresh)
          => /\ x.status_code = 201
             /\ x.set_cookie.kind = "jwt"
             /\ x.kept = x.set_cookie
       /\ (i > 1 /\ x.op = "me" /\ SignedUp(i - 1) /\ StillFresh(i - 1, i))
          => /\ x.sent = client.trace[i - 1].set_cookie
             /\ x.status_code = 200
             /\ \E u \in x.user : u.email = client.trace[i - 1].email
       /\ x.op = "signout"
          => /\ x.status_code = 200
             /\ x.kept = NoCookie
       /\ (i > 1 /\ x.op = "me" /\ client.trace[i - 1].op = "signout")
          => /\ x.sent = NoCookie
             /\ x.status_code = 401

\* the client has signed up, asked who it is, signed out and asked again
C12_Witness ==
    /\ Len(client.trace) >= 4
    /\ SignedUp(1)
    /\ client.trace[1].email = "a@b.com"
    /\ client.trace[2].op = "me"
    /\ client.trace[2].status_code = 200
    /\ client.trace[3].op = "signout"
    /\ client.trace[3].sent = client.trace[1].set_cookie
    /\ client.trace[4].op = "me"
    /\ client.trace[4].status_code = 401

---------------------------------------------------------------------------
(* Token codec *)

\* the token made by the last create_access_token has been decoded, no
\* later than its expiry instant
RoundTrip ==
    /\ call.fn = "decode_access_token"
    /\ call.token.kind = "jwt"
    /\ call.presented = call.token
    /\ call.expires_delta > 0
    /\ call.decoded_at <= call.at + call.expires_delta

\* the claims passed, plus 'exp'
ClaimsPlusExp ==
    [ok |-> TRUE,
     claims |-> [call.claims EXCEPT !.exp = call.at + call.expires_delta]]

\* C13: for every claim mapping c and every positive duration d,
\* decode_access_token(create_access_token(c, d)), evaluated no later than
\* the expiry instant, returns exactly c plus the claim 'exp'.
C13_DecodeOfEncodeReturnsClaims ==
    RoundTrip => call.payload = ClaimsPlusExp

\* the same, for the claim mappings whose registered claims jose accepts
RoundTripOfValidClaims ==
    (RoundTrip /\ RegisteredClaimsValid(call.claims))
    => call.payload = ClaimsPlusExp

\* a private claim has made the round trip
RoundTripReached ==
    /\ RoundTrip
    /\ "role" \in DOMAIN call.claims
    /\ call.payload = ClaimsPlusExp

DifferentSecret(token) ==
    /\ token.kind = "jwt"
    /\ token.sig = Sign("attacker-key", token.alg, token.payload)

Expired(token, t) ==
    /\ CorrectlySigned(token)
    /\ token.alg = algorithm
    /\ token.payload.exp # AbsentExp
    /\ token.payload.exp < t

\* one of the four causes the claim names
FailsToDecode(token, t) ==
    \/ DifferentSecret(token)
    \/ Malformed(token)
    \/ OtherAlgorithm(token)
    \/ Expired(token, t)

\* C14: decode_access_token returns one and the same value, None, which
\* carries no detail, for a token signed with a different secret, a
\* malformed token, a token asserting another algorithm and a correctly
\* signed token past its expiry: any two such tokens decode to equal values.
C14_DecodeFailsUniformly ==
    /\ (call.fn = "decode_access_token"
        /\ FailsToDecode(call.presented, call.decoded_at))
       => call.payload = None
    /\ \A t1, t2 \in TokensToDecode :
          (FailsToDecode(t1, now) /\ FailsToDecode(t2, now))
          => decode_access_token(t1, now) = decode_access_token(t2, now)

\* an expired token of the service has been decoded, while a token under
\* another secret could be presented as well
C14_Witness ==
    /\ call.fn = "decode_access_token"
    /\ Expired(call.presented, call.decoded_at)
    /\ call.payload = None
    /\ \E t \in TokensToDecode : DifferentSecret(t)

---------------------------------------------------------------------------
(* Password hasher *)

\* C15: for all passwords p (and whatever salt the hasher draws),
\* verify_password(p, get_password_hash(p)) is true, and for all p1 # p2,
\* verify_password(p2, get_password_hash(p1)) is false.
C15_VerifyMatchesHash ==
    /\ \A p1, p2 \in Passwords, salt \in HashSalts :
          verify_password(p2, get_password_hash(p1, salt)) = (p1 = p2)
    /\ (call.fn = "verify_password" /\ call.hashed_password = call.hash
        /\ call.hash.wellformed)
       => call.value = (call.plain_password = call.password)

\* another password than the hashed one has been verified against the hash
C15_Witness ==
    /\ call.fn = "verify_password"
    /\ call.hash = get_password_hash(call.password, "salt2")
    /\ call.hashed_password = call.hash
    /\ call.plain_password # call.password
    /\ call.value = FALSE

\* C16: verify_password never raises: for every password and every hash
\* string it returns a boolean, and it returns false when the hash is
\* malformed or does not match.
C16_VerifyNeverRaises ==
    call.fn = "verify_password"
    => /\ call.raised = ""
       /\ call.value \in BOOLEAN
       /\ ~call.hashed_password.wellformed => call.value = FALSE
       /\ call.hashed_password.digest
             # Argon2(call.hashed_password.salt, call.plain_password)
          => call.value = FALSE

\* the right password has been verified against a hash cut short
C16_Witness ==
    /\ call.fn = "verify_password"
    /\ call.hashed_password = [call.hash EXCEPT !.wellformed = FALSE]
    /\ call.hash = get_password_hash(call.plain_password, "salt1")
    /\ call.raised = ""
    /\ call.value = FALSE

---------------------------------------------------------------------------
(* Progress flag *)

Started(j) == jobs[j].pc # "idle"

\* the entity the middleware resolves the job's message to
Target(j) == _get_entity_info(jobs[j].message, registry)

\* the jobs received whose message resolves to the row e
JobsOn(e) ==
    {j \in JobIds : Started(j) /\ Target(j).found /\ Target(j).entity_id = e}

\* the job raised and on_error has run for it
FailureHandled(j) ==
    jobs[j].outcome = "raised" /\ jobs[j].pc \in {"errored", "done"}

\* the middleware has run its last hook for the body's outcome
Ended(j) == jobs[j].pc \in {"errored", "done", "aborted"}

\* an update of on_error or of post_execute was committed for the job
ClearingCommitted(j) ==
    jobs[j].cleared \/ jobs[j].last_update = "committed"

SingleJobOn(j, e) == e \in Entities /\ JobsOn(e) = {j}

Unresolved(labels) ==
    \/ labels.entity_type = ""
    \/ labels.entity_id_param = ""
    \/ labels.progress_field = ""
    \/ labels.entity_type \notin registry

\* C19: when a job's labels do not resolve to a registered entity, the
\* hooks attempt no write, none of them raises, pre_execute returns the
\* message unchanged and the job body runs.
C19_UnresolvedLabelsAreNoOp ==
    \A j \in JobIds :
       (Started(j) /\ Unresolved(jobs[j].message.labels))
       => /\ jobs[j].attempts = 0
          /\ jobs[j].raised = ""
          /\ jobs[j].pc # "aborted"
          /\ jobs[j].received = jobs[j].message

\* what holds of it: no write is attempted, and without entity_type,
\* entity_id_param or progress_field the job runs untouched
UnresolvedLabelsNeverWrite ==
    \A j \in JobIds :
       (Started(j) /\ Unresolved(jobs[j].message.labels))
       => /\ jobs[j].attempts = 0
          /\ (\/ jobs[j].message.labels.entity_type = ""
              \/ jobs[j].message.labels.entity_id_param = ""
              \/ jobs[j].message.labels.progress_field = "")
             => /\ jobs[j].raised = ""
                /\ jobs[j].received = jobs[j].message

\* C20: for every task message and any persistence failure during the flag
\* update, pre_execute, post_execute and on_error complete without raising,
\* a failed update being logged as an error.
C20_HooksNeverRaise ==
    \A j \in JobIds :
       /\ jobs[j].raised = ""
       /\ jobs[j].pc # "aborted"
       /\ jobs[j].last_update = "failed" => jobs[j].log = "error"

\* what holds of it: a persistence failure during the update is caught and
\* logged, and the job goes on
PersistenceFailureIsSwallowed ==
    \A j \in JobIds :
       jobs[j].last_update = "failed"
       => /\ jobs[j].raised = ""
          /\ jobs[j].log = "error"
          /\ jobs[j].pc \in {"running", "returned", "raised", "errored", "done"}

---------------------------------------------------------------------------
(* Sessions *)

\* the request has been answered
Answered(r) == tasks[r].pc = "done"

\* the handler of the request raised
Failed(r) == tasks[r].exc # NoException

\* C21: every session opened for a logical operation (get_async_db /
\* get_async_db_for_router for a request, sync_db_session for a flag update)
\* is released on every exit path: once the operation has ended the session
\* is not open, its work was committed exactly when the operation did not
\* raise, and it was rolled back, never committed, when the operation raised.
C21_SessionReleasedOnEveryExit ==
    /\ \A r \in Reqs :
          (Answered(r) /\ tasks[r].op \in DbOps)
          => /\ tasks[r].session = "closed"
             /\ tasks[r].ended = "commit" <=> ~Failed(r)
             /\ Failed(r) => tasks[r].ended = "rollback"
    /\ \A raises \in BOOLEAN :
          /\ sync_db_session(raises).session = "closed"
          /\ sync_db_session(raises).ended = "commit" <=> ~raises
          /\ raises => sync_db_session(raises).ended = "rollback"

\* what holds of it: no session of a request that raised is ever committed,
\* the session of a request that returned is committed and closed when the
\* request is answered, and sync_db_session releases its session both ways
SessionCommittedIffReturned ==
    /\ \A r \in Reqs :
          (Answered(r) /\ tasks[r].op \in DbOps)
          => /\ tasks[r].ended = "commit" <=> ~Failed(r)
             /\ ~Failed(r) => tasks[r].session = "closed"
             /\ Failed(r) => tasks[r].ended \in {"none", "close"}
    /\ \A raises \in BOOLEAN :
          /\ sync_db_session(raises).session = "closed"
          /\ sync_db_session(raises).ended = "commit" <=> ~raises
          /\ raises => sync_db_session(raises).ended = "rollback"

---------------------------------------------------------------------------
(* Event loop *)

\* the request is being handled and has not been answered
InFlight(r) == tasks[r].pc \notin {"idle", "done"}

\* the request waits for the database, not for the event loop
AwaitsInsert(r) == tasks[r].pc = "flush"

\* C22: password hashing during signup and password verification during
\* signin do not block the event loop: while one request is hashing or
\* verifying, every other request in flight (that does not wait for the
\* database) can take its next step.
C22_HashingDoesNotBlockTheLoop ==
    \A r, q \in Reqs :
       (r # q /\ Blocking(tasks[r]) /\ InFlight(q) /\ ~AwaitsInsert(q))
       => ENABLED TaskStep(q)

\* what holds of it: outside of a hash or a verification, every request in
\* flight that does not wait for the database can take its next step
LoopRunsWhenNoneHashes ==
    \A q \in Reqs :
       (InFlight(q) /\ ~AwaitsInsert(q)
        /\ \A r \in Reqs \ {q} : ~Blocking(tasks[r]))
       => ENABLED TaskStep(q)

---------------------------------------------------------------------------
(* Error payload *)

\* C23: every APIException raised while a request is handled is translated
\* into a response whose HTTP status is the exception's status_code and
\* whose body has exactly the keys internal_code, detail and status_code,
\* with the exception's values.
C23_ApiExceptionPayload ==
    \A r \in Reqs :
       (Answered(r) /\ tasks[r].exc.api)
       => LET exc == tasks[r].exc
              response == tasks[r].response
          IN /\ response.status_code = exc.status_code
             /\ DOMAIN response.content
                   = {"internal_code", "detail", "status_code"}
             /\ response.content.internal_code = exc.internal_code
             /\ response.content.detail = exc.detail
             /\ response.content.status_code = exc.status_code

\* a signup of a held email (400) and a request without a cookie (401) have
\* been answered
C23_Witness ==
    /\ Answered("r1")
    /\ tasks["r1"].exc = UserAlreadyExistsException
    /\ tasks["r1"].response.status_code = 400
    /\ tasks["r1"].response.content.internal_code = 40001
    /\ Answered("r2")
    /\ tasks["r2"].exc = NotAuthenticatedException
    /\ tasks["r2"].response.content.detail = "Not authenticated"

---------------------------------------------------------------------------
(* User records *)

\* C24: no core operation removes a persisted user or changes its id, email,
\* hashed_password or created_at: update_user_email and delete_user always
\* fail with NotImplementedError and change nothing, and no step of signup,
\* signin, signout or get_current_user modifies an existing record.
C24_UsersNeverChangedOrRemoved ==
    [][/\ \A u \in users : u \in users'
       /\ \A user_id \in UserIds :
             /\ CallDeleteUser(user_id)
                => call'.raised = "NotImplementedError" /\ users' = users
             /\ \A new_email \in Emails :
                   CallUpdateUserEmail(user_id, new_email)
                   => call'.raised = "NotImplementedError" /\ users' = users
       /\ \A r \in Reqs :
             TaskStep(r) => \A u \in users' : u \in users \/ u \in tasks[r].pending
      ]_vars

\* delete_user has been called with the id of a persisted user, who is
\* still there
C24_Witness ==
    /\ call.fn = "delete_user"
    /\ call.raised = "NotImplementedError"
    /\ SelectById(users, ParseUuid(call.user_id)) # {}
    /\ \E r \in Reqs : Answered(r) /\ tasks[r].op = "signout"

---------------------------------------------------------------------------
(* Health *)

\* what GET /, GET /health and GET /ping answer
HealthBody(op) ==
    CASE op = "root" -> "OK"
      [] op = "health" -> "OK"
      [] op = "ping" -> "pong"

\* C25: GET /, GET /health and GET /ping always answer 200 with the body
\* "OK", "OK" and "pong", whatever cookie the request carries and whatever
\* is persisted, and no step of theirs changes any state: they take no
\* session, raise nothing and leave the users alone.
C25_HealthAlwaysOk ==
    [][\A r \in Reqs :
          (tasks'[r] # tasks[r] /\ tasks'[r].op \in HealthOps)
          => /\ users' = users
             /\ nextId' = nextId
             /\ tasks'[r].session = "none"
             /\ tasks'[r].exc = NoException
             /\ tasks'[r].pc \in {"route", "done"}
             /\ tasks'[r].pc = "done"
                => /\ tasks'[r].response.status_code = 200
                   /\ tasks'[r].response.content.value
                         = HealthBody(tasks'[r].op)
                   /\ tasks'[r].response.set_cookie = {}]_vars

\* /ping has been answered to a request that carried the token of a
\* persisted user, while another request was being handled
C25_Witness ==
    /\ Answered("r1")
    /\ tasks["r1"].op = "ping"
    /\ tasks["r1"].cookie \in SignupTokens
    /\ tasks["r1"].response.status_code = 200
    /\ tasks["r1"].response.content.value = "pong"
    /\ InFlight("r2")

---------------------------------------------------------------------------
(* Outcomes of get_current_user *)

\* the outcomes get_current_user documents (dependencies.py, "Raises")
ClassifiedAuthOutcomes ==
    {NoException, NotAuthenticatedException, InvalidTokenException,
     TokenExpiredException, UserNotFoundException}

\* C26: get_current_user always ends in the user record or in one of
\* NotAuthenticated, InvalidToken, TokenExpired, UserNotFound, never in an
\* unclassified error, whatever cookie the request carries, a validly
\* signed token whose subject is not the text of a UUID included.
C26_AuthOutcomeAlwaysClassified ==
    \A r \in Reqs :
       (Answered(r) /\ tasks[r].op = "me")
       => /\ tasks[r].exc \in ClassifiedAuthOutcomes
          /\ tasks[r].exc = NoException
             => /\ tasks[r].user # {}
                /\ tasks[r].user \subseteq users
                /\ tasks[r].response.status_code = 200

\* what holds: the outcome is classified for every cookie but a token that
\* decodes to a non-empty subject UUID() cannot parse, and that one ends
\* in the ValueError of UUID() before any query
AuthOutcomeClassifiedForUuidSubjects ==
    \A r \in Reqs :
       (Answered(r) /\ tasks[r].op = "me")
       => LET unparsable ==
                 /\ tasks[r].payload # None
                 /\ tasks[r].payload.claims.sub \notin {AbsentSub, EmptyStr}
                 /\ ParseUuid(tasks[r].payload.claims.sub) = ValueError
          IN  IF unparsable
              THEN /\ tasks[r].exc = Unclassified("ValueError")
                   /\ tasks[r].response.status_code = 500
                   /\ ~\E i \in 1..Len(tasks[r].steps) :
                          tasks[r].steps[i] = "select"
              ELSE /\ tasks[r].exc \in ClassifiedAuthOutcomes
                   /\ tasks[r].exc = NoException
                      => /\ tasks[r].user # {}
                         /\ tasks[r].user \subseteq users
                         /\ tasks[r].response.status_code = 200

---------------------------------------------------------------------------
(* Expiry of a created token *)

\* a token has been created by the call on record
TokenCreated ==
    /\ call.fn \in {"create_access_token", "decode_access_token"}
    /\ call.token.kind = "jwt"

\* C27: the 'exp' of a created token is the creation instant plus
\* expires_delta for every duration that was provided, the zero duration
\* included; the configured default number of minutes is used only when no
\* expires_delta was provided.
C27_ExpiryIsCreationPlusDelta ==
    TokenCreated
    => call.token.payload.exp
          = IF call.expires_delta # NoDelta
            THEN call.at + call.expires_delta
            ELSE call.at + access_token_expire_minutes

\* what holds: the sum for every positive duration, the default both for
\* None and for timedelta(0)
ExpiryOfTruthyDelta ==
    TokenCreated
    => call.token.payload.exp
          = IF call.expires_delta # NoDelta /\ call.expires_delta > 0
            THEN call.at + call.expires_delta
            ELSE call.at + access_token_expire_minutes

---------------------------------------------------------------------------
(* The entity a tracked job names *)

\* the argument named by entity_id_param was passed by keyword
PassedByKeyword(message) ==
    \E kv \in message.kwargs : kv[1] = message.labels.entity_id_param

\* the value the job receives for the parameter entity_id_param names: the
\* keyword argument of that name when there is one, else the positional
\* argument at the position the dispatch declares for it
NamedArgument(message) ==
    IF PassedByKeyword(message)
    THEN KwargsGet(message.kwargs, message.labels.entity_id_param)
    ELSE IF ArgIndex(message.labels) < Len(message.args)
    THEN message.args[ArgIndex(message.labels) + 1]
    ELSE PyNone

\* C28: the entity whose flag the middleware toggles for a tracked job is
\* the one identified by the value of the argument entity_id_param names,
\* whether that argument is passed positionally or by keyword and whatever
\* other positional arguments the job takes.
C28_ToggledEntityIsTheNamedArgument ==
    \A j \in JobIds :
       (Started(j) /\ jobs[j].attempts > 0)
       => /\ UuidOf(NamedArgument(jobs[j].message)).raised = ""
          /\ Target(j).entity_id
                = UuidOf(NamedArgument(jobs[j].message)).id

\* what holds: the same when the job takes no positional argument, or does
\* not take the named argument by keyword
ToggledEntityWhenPassedOneWay ==
    \A j \in JobIds :
       (/\ Started(j)
        /\ jobs[j].attempts > 0
        /\ \/ jobs[j].message.args = <<>>
           \/ ~PassedByKeyword(jobs[j].message))
       => /\ UuidOf(NamedArgument(jobs[j].message)).raised = ""
          /\ Target(j).entity_id
                = UuidOf(NamedArgument(jobs[j].message)).id

---------------------------------------------------------------------------
(* Order of the authentication steps *)

\* the request has taken the step
Took(r, step) ==
    \E i \in 1..Len(tasks[r].steps) : tasks[r].steps[i] = step

\* the request took the step a before every step b it took
Precedes(r, a, b) ==
    \A i \in 1..Len(tasks[r].steps) :
       tasks[r].steps[i] = b
       => \E k \in 1..(i - 1) : tasks[r].steps[k] = a

\* the steps that write: the insert of signup and the commit of a session
MutationSteps == {"add", "flush", "commit"}

\* C29: within one request the authentication steps are strictly ordered:
\* the token is decoded only if a cookie was present, the user table is
\* queried only if decoding succeeded and a subject was present, and no
\* authentication failure of get_current_user or of signin is preceded by
\* a mutation made in that request.
C29_AuthStepsAreOrdered ==
    \A r \in Reqs :
       /\ tasks[r].op = "me"
          => /\ Took(r, "decode_access_token")
                => /\ ~CookieMissing(tasks[r].cookie)
                   /\ Precedes(r, "cookies.get", "decode_access_token")
             /\ (Took(r, "select") \/ Took(r, "UUID"))
                => /\ Truthy(tasks[r].payload)
                   /\ tasks[r].payload
                         = decode_access_token(tasks[r].cookie, now)
                   /\ ~SubjectMissing(tasks[r].payload.claims.sub)
                   /\ Precedes(r, "decode_access_token", "select")
                   /\ Precedes(r, "decode_access_token", "UUID")
             /\ Took(r, "route") => Precedes(r, "select", "route")
       /\ (tasks[r].op \in {"me", "signin"} /\ Failed(r))
          => /\ \A step \in MutationSteps : ~Took(r, step)
             /\ tasks[r].pending = {}
             /\ tasks[r].ended # "commit"

\* GET /user/me with the token of a user no row holds: the cookie was
\* read, the token decoded, the table queried, in that order, and the
\* request ended in UserNotFound
C29_Witness ==
    /\ Answered("r1")
    /\ tasks["r1"].op = "me"
    /\ tasks["r1"].exc = UserNotFoundException
    /\ tasks["r1"].steps
          = <<"session", "cookies.get", "decode_access_token", "select">>
    /\ users # {}

---------------------------------------------------------------------------
(* Two jobs on one entity *)

\* the job body is running
Executing(j) == jobs[j].pc = "running"

\* both jobs were received for the row e, and every update their hooks
\* have made so far was committed
BothOn(e) ==
    /\ JobsOn(e) = JobIds
    /\ \A j \in JobIds : jobs[j].attempts > 0 /\ ~jobs[j].failed

\* neither post_execute nor on_error has run for the job
NotYetCleared(j) == jobs[j].pc \in {"running", "returned", "raised"}

\* C30 as stated: for two tracked jobs that name the same entity and the
\* same progress field and whose executions overlap, every flag update
\* succeeding, the flag is true in every state in which at least one of
\* the two is still executing. (A state with the flag false and a job
\* executing is one of overlap: the executing job's pre_execute set the
\* flag, so the other job's hook cleared it afterwards.)
C30_FlagTrueWhileAnyExecutes ==
    \A e \in Entities :
       (BothOn(e) /\ \E j \in JobIds : Executing(j))
       => flags[e]

\* C30, amended: the flag is true in every state in which at least one of
\* the two is still executing and neither on_error nor post_execute has
\* run for either of them; the flag holds the value written last.
C30_FlagTrueUntilFirstJobEnds ==
    \A e \in Entities :
       (/\ BothOn(e)
        /\ \E j \in JobIds : Executing(j)
        /\ \A j \in JobIds : NotYetCleared(j))
       => flags[e]

\* the bodies of two jobs on the same row run at the same time, the row
\* named by the first argument of one and by the second of the other
C30_Witness ==
    \E e \in Entities :
       /\ BothOn(e)
       /\ Executing("j1")
       /\ Executing("j2")
       /\ ArgIndex(jobs["j1"].message.labels) = 0
       /\ ArgIndex(jobs["j2"].message.labels) = 1
       /\ flags[e]

====
